---- MODULE Spec2Model ----
(***************************************************************************)
(* A model of the cool-vibes travel agent: the Redis key space the        *)
(* program reads and writes, the seeding functions of seeding.py, the     *)
(* preference tools of tools/user_tools.py, the start-up sequence of      *)
(* main.py and the mock events table of data/mock_events.py.              *)
(*                                                                         *)
(* Strings the code pattern-matches (Redis keys, user names, city names)  *)
(* are sequences of one-character or one-token strings, so that glob      *)
(* matching and lower-casing are computed, not assumed.                   *)
(***************************************************************************)
EXTENDS Integers, Sequences, FiniteSets, TLC

(***************************************************************************)
(* Bounds of the model.                                                    *)
(***************************************************************************)
\* how many distinct document ids str(uuid.uuid4())[:8] yields in the model
MaxIds == 2

(***************************************************************************)
(* Small value sets.                                                       *)
(***************************************************************************)
IdNames == <<"0a", "1b", "2c", "3d", "4e">>
\* the values of str(uuid.uuid4())[:8]: hex digits, never ':' or '*'
Ids == {IdNames[i] : i \in 1..MaxIds}

\* user names, as token sequences
Mark == <<"M", "a", "r", "k">>
Shruti == <<"S", "h", "r", "u", "t", "i">>
Users == {Mark, Shruti}

\* preference texts
Prefs == {"likes jazz", "window seat"}

Range(s) == {s[i] : i \in DOMAIN s}

(***************************************************************************)
(* Python helpers: str.lower, dict.get, json.dumps.                        *)
(***************************************************************************)
UpperCase == <<"A", "B", "C", "D", "E", "F", "G", "H", "I", "J", "K", "L", "M",
               "N", "O", "P", "Q", "R", "S", "T", "U", "V", "W", "X", "Y", "Z">>
LowerCase == <<"a", "b", "c", "d", "e", "f", "g", "h", "i", "j", "k", "l", "m",
               "n", "o", "p", "q", "r", "s", "t", "u", "v", "w", "x", "y", "z">>

\* one character lower-cased
LowerChar(c) ==
    IF \E i \in DOMAIN UpperCase : UpperCase[i] = c
    THEN LowerCase[CHOOSE i \in DOMAIN UpperCase : UpperCase[i] = c]
    ELSE c

\* str.lower()
Lower(s) == [i \in DOMAIN s |-> LowerChar(s[i])]

\* a Python dict is a sequence of <<key, value>> pairs with distinct keys, in
\* insertion order
DictKeys(d) == {d[i][1] : i \in DOMAIN d}

\* dict.get(key, default)
DictGet(d, key, default) ==
    IF key \in DictKeys(d)
    THEN d[CHOOSE i \in DOMAIN d : d[i][1] = key][2]
    ELSE default

RECURSIVE JoinTokens(_, _)
\* sep.join(parts), on token sequences
JoinTokens(parts, sep) ==
    IF parts = <<>> THEN <<>>
    ELSE IF Len(parts) = 1 THEN parts[1]
    ELSE parts[1] \o sep \o JoinTokens(Tail(parts), sep)

\* json.dumps of a str
JsonStr(s) == <<"\"", s, "\"">>

\* json.dumps of a dict of str to str
JsonDict(d) ==
    <<"{">> \o
    JoinTokens([i \in DOMAIN d |-> JsonStr(d[i][1]) \o <<": ">> \o JsonStr(d[i][2])],
               <<", ">>) \o
    <<"}">>

\* json.dumps(insights): the text stored in the Preferences hash
JsonDumps(insights) ==
    <<"[">> \o
    JoinTokens([i \in DOMAIN insights |-> JsonDict(insights[i])], <<", ">>) \o
    <<"]">>

(***************************************************************************)
(* The seed file seed.json.                                                *)
(***************************************************************************)
\* insight dicts of a seed file: with a text, with an empty text, without
\* the 'insight' key
jazz == <<<<"insight", "likes jazz">>>>
window == <<<<"insight", "window seat">>>>
emptyInsight == <<<<"insight", "">>>>
noInsight == <<<<"note", "no insight key">>>>

\* user_memories: user name -> insight list, a dict in file order
UserMemories ==
    {<<>>,
     <<<<Mark, <<jazz, window>>>>, <<Shruti, <<emptyInsight, jazz>>>>>>,
     <<<<Shruti, <<noInsight>>>>, <<Mark, <<window>>>>>>,
     <<<<Mark, <<jazz>>>>>>,
     <<<<Shruti, <<jazz, jazz>>>>>>,
     <<<<Mark, <<>>>>, <<Shruti, <<window>>>>>>,
     <<<<Shruti, <<window, noInsight, jazz>>>>, <<Mark, <<jazz>>>>>>}

\* what Path(seed_file).exists() and json.load can find
SeedFiles ==
    {[kind |-> "missing"], [kind |-> "invalid_json"], [kind |-> "no_user_memories"]}
    \cup {[kind |-> "json", user_memories |-> um] : um \in UserMemories}

\* seed_data.get('user_memories', {})
SeedUserMemories(file) ==
    IF file.kind = "json" THEN file.user_memories ELSE <<>>

(***************************************************************************)
(* The Redis key space.  A key is a token sequence: a prefix token, the    *)
(* user name, ":" and a document id.  db maps each existing key of the     *)
(* UserPref, Context and Conversations name spaces to its hash; prefHash   *)
(* is the hash at cool-vibes-agent:Preferences (no field = no key).        *)
(***************************************************************************)
UserPrefPrefix == "cool-vibes-agent:UserPref:"
ContextPrefix == "cool-vibes-agent-vnext:Context:"
ConvPrefix == "cool-vibes-agent:Conversations:"

\* f"cool-vibes-agent:UserPref:{user_name}:{doc_id}"
UserPrefKey(u, id) == <<UserPrefPrefix>> \o u \o <<":", id>>
\* a remember_preference that writes into the UserPref name space
ContextKeyInUserPref(u, id) == <<UserPrefPrefix>> \o u \o <<":", id>>
\* f"cool-vibes-agent-vnext:Context:{user_name}:{doc_id}"
ContextKey(u, id) == <<ContextPrefix>> \o u \o <<":", id>>
ConvKey(id) == <<ConvPrefix, id>>

\* "cool-vibes-agent:UserPref:*"
UserPrefPattern == <<UserPrefPrefix, "*">>
\* "cool-vibes-agent:Conversations:*"
ConvPattern == <<ConvPrefix, "*">>
\* "cool-vibes-agent-vnext:Context:*"
ContextPattern == <<ContextPrefix, "*">>
\* f"cool-vibes-agent-vnext:Context:{user_name}:*"
UserContextPattern(u) == <<ContextPrefix>> \o u \o <<":", "*">>
\* f"cool-vibes-agent:UserPref:{user_name}:*"
UserUserPrefPattern(u) == <<UserPrefPrefix>> \o u \o <<":", "*">>

RECURSIVE GlobMatch(_, _)
\* Redis KEYS glob matching: "*" matches any run of characters
GlobMatch(pat, str) ==
    IF pat = <<>> THEN str = <<>>
    ELSE IF Head(pat) = "*"
         THEN GlobMatch(Tail(pat), str)
              \/ (str # <<>> /\ GlobMatch(pat, Tail(str)))
         ELSE str # <<>> /\ Head(str) = Head(pat)
              /\ GlobMatch(Tail(pat), Tail(str))

\* redis_client.keys(pattern) on key space d
RedisKeys(d, pat) == {k \in DOMAIN d : GlobMatch(pat, k)}

\* redis_client.delete(*ks) on key space d
RedisDelete(d, ks) == [k \in DOMAIN d \ ks |-> d[k]]

\* redis_client.hset(key, mapping=m): sets the fields of m, keeps the others
RedisHSetMapping(d, key, m) ==
    LET old == IF key \in DOMAIN d THEN d[key] ELSE <<>>
        new == [f \in DOMAIN old \cup DOMAIN m |->
                   IF f \in DOMAIN m THEN m[f] ELSE old[f]]
    IN  [k \in DOMAIN d \cup {key} |-> IF k = key THEN new ELSE d[k]]

\* redis_client.hset(key, field, value) on the hash h at key
RedisHSet(h, fld, value) ==
    [f \in DOMAIN h \cup {fld} |-> IF f = fld THEN value ELSE h[f]]

\* the empty hash: what redis_client.delete(key) leaves
NoKey == <<>>

\* dict.get(field, default) on a hash
HashGet(h, fld, default) == IF fld \in DOMAIN h THEN h[fld] ELSE default

VARIABLES
    seedFile,       \* seed.json, as found on disk
    prefHash,       \* the hash cool-vibes-agent:Preferences
    db,             \* the UserPref, Context and Conversations keys
    hs,             \* seed_user_preferences: its position and locals
    env,            \* os.environ after load_dotenv()
    pc,             \* main: its position
    trace,          \* main: the calls it has made, in order
    redis_client,   \* tools.user_tools._redis_client is set
    vectorizer,     \* tools.user_tools._vectorizer is set
    search_index,   \* tools.user_tools._search_index is set
    factory,        \* main: chat_message_store_factory
    agent,          \* main: travel_agent, as created
    sv,             \* seed_user_preferences_with_vectors: position and locals
    call,           \* the last tool call served and what it returned
    learned,        \* the <<user, preference>> pairs remember_preference has
                    \* reported stored since Context was last cleared
    rs,             \* reseed_user_preferences run command by command: its
                    \* position and locals
    events_data,    \* data.mock_events.EVENTS_DATA
    lookup          \* the last event lookup and its result

mainState == <<env, pc, trace, redis_client, vectorizer, search_index, factory, agent, sv>>
toolState == <<call, learned, rs>>
eventState == <<events_data, lookup>>
vars == <<seedFile, prefHash, db, hs, mainState, toolState, eventState>>

(***************************************************************************)
(* seed_user_preferences (seeding.py): delete the Preferences hash, then   *)
(* hset one field per user of user_memories.                               *)
(***************************************************************************)
\* how many calls of the seeding functions one behaviour of SpecSeed makes
MaxRuns == 2

\* a seed_user_preferences that forgets to clear the hash
PreferencesKept(h) == h

\* line 45: what redis_client.delete(preferences_key) leaves of hash h
PreferencesDeleted(h) == NoKey

\* lines 51-52: the hash after hset(preferences_key, user_name, json.dumps(insights))
PreferencesSeeded(h, user_name, insights) ==
    RedisHSet(h, user_name, JsonDumps(insights))

\* the return statement of seed_user_preferences; prev and snap keep the hash
\* as the last two successful runs left it
\* and error names what made the run fail ("none" when nothing raised)
HsReturn(value, error) ==
    hs' = [hs EXCEPT !.pc = "idle", !.runs = hs.runs + 1, !.error = error,
                     !.result = IF value THEN "True" ELSE "False",
                     !.prev = IF value THEN hs.snap ELSE hs.prev,
                     !.snap = IF value THEN prefHash' ELSE hs.snap,
                     !.okRuns = IF value THEN hs.okRuns + 1 ELSE hs.okRuns]

\* the call: seed_user_preferences(redis_client), by a script other than main
HsCall ==
    /\ pc = "no_main"
    /\ hs.pc = "idle" /\ sv.pc = "idle"
    /\ hs.runs + sv.runs < MaxRuns
    /\ \E dec \in BOOLEAN :
        hs' = [hs EXCEPT !.pc = "read", !.pre = prefHash, !.written = {},
                         !.deleted = FALSE, !.i = 0,
                         !.result = "running", !.decode_responses = dec,
                         !.error = "none"]
    /\ UNCHANGED <<seedFile, prefHash, db, mainState, toolState, eventState>>

\* lines 26-38: the seed file is read before Redis is touched
HsRead ==
    /\ hs.pc = "read"
    /\ UNCHANGED <<seedFile, prefHash, db, mainState, toolState, eventState>>
    /\ \/ /\ seedFile.kind = "missing"
          /\ HsReturn(FALSE, "seed_file")
       \/ /\ seedFile.kind = "invalid_json"
          /\ HsReturn(FALSE, "seed_file")
       \/ /\ seedFile.kind \in {"json", "no_user_memories"}
          /\ SeedUserMemories(seedFile) = <<>>
          /\ HsReturn(FALSE, "seed_file")
       \/ /\ seedFile.kind = "json"
          /\ SeedUserMemories(seedFile) # <<>>
          /\ hs' = [hs EXCEPT !.pc = "delete"]

\* lines 44-46: clear the existing preferences
HsDeleteStep ==
    /\ hs.pc = "delete"
    /\ prefHash' = PreferencesDeleted(prefHash)
    /\ hs' = [hs EXCEPT !.pc = "hset", !.i = 1, !.deleted = TRUE]
    /\ UNCHANGED <<seedFile, db, mainState, toolState, eventState>>

\* lines 49-53: one iteration of the loop over user_memories.items()
HsHsetStep ==
    /\ hs.pc = "hset"
    /\ hs.i <= Len(SeedUserMemories(seedFile))
    /\ LET user_name == SeedUserMemories(seedFile)[hs.i][1]
           insights == SeedUserMemories(seedFile)[hs.i][2]
       IN  /\ prefHash' = PreferencesSeeded(prefHash, user_name, insights)
           /\ hs' = [hs EXCEPT !.i = hs.i + 1,
                               !.written = hs.written \cup {user_name}]
    /\ UNCHANGED <<seedFile, db, mainState, toolState, eventState>>

\* lines 56-59: hkeys, the log line that decodes each key, return True.
\* With a decode_responses=True client the keys are str and u.decode raises
\* AttributeError, which the last except clause turns into False.
HsVerify ==
    /\ hs.pc = "hset"
    /\ hs.i > Len(SeedUserMemories(seedFile))
    /\ UNCHANGED <<seedFile, prefHash, db, mainState, toolState, eventState>>
    /\ HsReturn(~hs.decode_responses,
                IF hs.decode_responses THEN "decode" ELSE "none")

\* a handler that reports success all the same
HsRedisErrorIgnored == TRUE

\* lines 64-66: except redis.RedisError: log, return False
HsOnRedisError == FALSE

\* a Redis command of lines 45-56 raises redis.RedisError
HsRedisError ==
    /\ hs.pc \in {"delete", "hset"}
    /\ UNCHANGED <<seedFile, prefHash, db, mainState, toolState, eventState>>
    /\ HsReturn(HsOnRedisError, "redis")

(***************************************************************************)
(* The environment.  os.getenv gives None for an unset variable, "" for    *)
(* one set to the empty string.                                            *)
(***************************************************************************)
RequiredEnv ==
    {"REDIS_URL", "AZURE_OPENAI_ENDPOINT", "AZURE_OPENAI_API_KEY",
     "AZURE_OPENAI_DEPLOYMENT_NAME"}
OptionalEnv == {"AZURE_OPENAI_API_VERSION", "APPLICATIONINSIGHTS_CONNECTION_STRING"}
\* set by main itself before the Azure client is created
DerivedEnv == {"AZURE_OPENAI_RESPONSES_DEPLOYMENT_NAME"}
EnvNames == RequiredEnv \cup OptionalEnv \cup DerivedEnv

\* os.getenv(name)
Getenv(name) == env[name]

\* Python truthiness of a str or None
Truthy(v) == v \notin {"None", ""}

\* a check that only asks whether the variables are set
AllRequiredSet == \A n \in RequiredEnv : Getenv(n) # "None"

\* line 74: all([redis_url, azure_endpoint, azure_key, azure_deployment])
AllRequired == \A n \in RequiredEnv : Truthy(Getenv(n))

(***************************************************************************)
(* seed_user_preferences_with_vectors (seeding.py), run to completion by   *)
(* asyncio.run inside main.  store_preference lives in context_provider,   *)
(* which is not among the sources: it is modelled from the persisted key   *)
(* layout of the specification.                                            *)
(***************************************************************************)
\* vectorizer.embed(text): a small integer vector per text
Embed(text) ==
    CASE text = "likes jazz" -> <<2, 1>>
      [] text = "window seat" -> <<1, 2>>
      [] OTHER -> <<1, 1>>

\* the hash store_preference writes at <app>:UserPref:<user>:<id>
UserPrefHash(text, source) ==
    [preference_text |-> text, source |-> source, timestamp |-> "ts",
     embedding |-> Embed(text)]

\* store_preference(index, vectorizer, user_name, preference_text, source)
\* with generated document id `id`
StorePreference(d, user_name, text, source, id) ==
    RedisHSetMapping(d, UserPrefKey(user_name, id), UserPrefHash(text, source))

\* the ids store_preference may generate for user_name: its key is unique
FreshUserPrefIds(d, user_name) ==
    {id \in Ids : UserPrefKey(user_name, id) \notin DOMAIN d}

\* the user name inside a UserPref or Context key
UserOfKey(k) == SubSeq(k, 2, Len(k) - 2)

\* the preference content of the UserPref name space, ids aside: how many
\* records hold each <<user, preference_text>>
UserPrefContent(d) ==
    LET ks == RedisKeys(d, UserPrefPattern)
        pairOf(k) == <<UserOfKey(k), d[k].preference_text>>
    IN  [pr \in {pairOf(k) : k \in ks} |-> Cardinality({k \in ks : pairOf(k) = pr})]

svIdle ==
    [pc |-> "idle", ui |-> 0, ii |-> 0, result |-> "none", pre |-> {},
     written |-> {}, stored |-> <<>>, failed |-> {}, deleted |-> FALSE,
     runs |-> 0, okRuns |-> 0, prev |-> <<>>, snap |-> <<>>,
     prevComplete |-> FALSE, complete |-> FALSE, error |-> "none"]

\* the locals of a fresh call
SvEnter ==
    [sv EXCEPT !.pc = "setup", !.ui = 0, !.ii = 0, !.result = "running",
               !.pre = {}, !.written = {}, !.stored = <<>>, !.failed = {},
               !.deleted = FALSE, !.error = "none"]

\* user_memories, as seed_user_preferences_with_vectors reads it
SvMemories == SeedUserMemories(seedFile)

\* a seed_user_preferences_with_vectors that skips the clean-up
SvUserPrefKept(d) == d

\* lines 150-154: the key space after every key matching
\* cool-vibes-agent:UserPref:* is deleted
SvUserPrefDeleted(d) == RedisDelete(d, RedisKeys(d, UserPrefPattern))

\* lines 157-161: the key space after every key matching
\* cool-vibes-agent:Conversations:* is deleted
SvConversationsDeleted(d) == RedisDelete(d, RedisKeys(d, ConvPattern))

\* a return statement of seed_user_preferences_with_vectors.  Called from
\* main, asyncio.run returns and main goes on to the conversation store.
\* prev and snap keep the UserPref content as the last two runs that returned
\* True left it, and whether each stored every insight it tried; error names
\* what made the run fail ("none" when nothing reached the outer handlers).
SvReturn(value, error) ==
    /\ sv' = [sv EXCEPT !.pc = "idle", !.runs = sv.runs + 1, !.error = error,
                        !.result = IF value THEN "True" ELSE "False",
                        !.okRuns = IF value THEN sv.okRuns + 1 ELSE sv.okRuns,
                        !.prev = IF value THEN sv.snap ELSE sv.prev,
                        !.snap = IF value THEN UserPrefContent(db) ELSE sv.snap,
                        !.prevComplete = IF value THEN sv.complete ELSE sv.prevComplete,
                        !.complete = IF value THEN sv.failed = {} ELSE sv.complete]
    /\ pc' = IF pc = "seeding" THEN "conv_store" ELSE pc
    /\ trace' = IF pc = "seeding" THEN Append(trace, "seed_end") ELSE trace

\* the call seed_user_preferences_with_vectors(redis_url, vectorizer) by a
\* script other than main
SvCall ==
    /\ pc = "no_main"
    /\ hs.pc = "idle" /\ sv.pc = "idle"
    /\ hs.runs + sv.runs < MaxRuns
    /\ sv' = SvEnter
    /\ UNCHANGED <<seedFile, prefHash, db, hs, toolState, eventState>>
    /\ UNCHANGED <<env, pc, trace, redis_client, vectorizer, search_index, factory, agent>>

\* lines 136-147: the imports, the search index, the client (from_url does
\* not connect)
SvSetup ==
    /\ sv.pc = "setup"
    /\ UNCHANGED <<seedFile, prefHash, db, hs, toolState, eventState>>
    /\ UNCHANGED <<env, redis_client, vectorizer, search_index, factory, agent>>
    /\ \/ /\ sv' = [sv EXCEPT !.pc = "delete_userpref"]
          /\ UNCHANGED <<pc, trace>>
       \/ SvReturn(FALSE, "setup")

\* lines 150-154: delete all existing UserPref keys before seeding
SvDeleteUserPref ==
    /\ sv.pc = "delete_userpref"
    /\ db' = SvUserPrefDeleted(db)
    /\ sv' = [sv EXCEPT !.pc = "delete_conv", !.deleted = TRUE,
                        !.pre = RedisKeys(db, UserPrefPattern)]
    /\ UNCHANGED <<seedFile, prefHash, hs, toolState, eventState>>
    /\ UNCHANGED <<env, pc, trace, redis_client, vectorizer, search_index, factory, agent>>

\* lines 157-163: delete all conversation history
SvDeleteConv ==
    /\ sv.pc = "delete_conv"
    /\ db' = SvConversationsDeleted(db)
    /\ sv' = [sv EXCEPT !.pc = "read"]
    /\ UNCHANGED <<seedFile, prefHash, hs, toolState, eventState>>
    /\ UNCHANGED <<env, pc, trace, redis_client, vectorizer, search_index, factory, agent>>

\* a Redis command of lines 151-160 raises: the outer except returns False
SvRedisError ==
    /\ sv.pc \in {"delete_userpref", "delete_conv"}
    /\ UNCHANGED <<seedFile, prefHash, db, hs, toolState, eventState>>
    /\ UNCHANGED <<env, redis_client, vectorizer, search_index, factory, agent>>
    /\ SvReturn(FALSE, "redis")

\* lines 166-185: index.create (its failure is swallowed), then the seed file
SvRead ==
    /\ sv.pc = "read"
    /\ UNCHANGED <<seedFile, prefHash, db, hs, toolState, eventState>>
    /\ UNCHANGED <<env, redis_client, vectorizer, search_index, factory, agent>>
    /\ \/ /\ seedFile.kind = "missing"
          /\ SvReturn(FALSE, "seed_file")
       \/ /\ seedFile.kind = "invalid_json"
          /\ SvReturn(FALSE, "seed_file")
       \/ /\ seedFile.kind \in {"json", "no_user_memories"}
          /\ SvMemories = <<>>
          /\ SvReturn(FALSE, "seed_file")
       \/ /\ seedFile.kind = "json"
          /\ SvMemories # <<>>
          /\ sv' = [sv EXCEPT !.pc = "store", !.ui = 1, !.ii = 1]
          /\ UNCHANGED <<pc, trace>>

\* the insight dict the loops of lines 190-193 stand at
SvInsight == SvMemories[sv.ui][2][sv.ii]
SvUser == SvMemories[sv.ui][1]
SvAtInsight ==
    /\ sv.pc = "store"
    /\ sv.ui <= Len(SvMemories)
    /\ sv.ii <= Len(SvMemories[sv.ui][2])

\* a get whose default is a text
InsightTextOrUnknown(insight_dict) == DictGet(insight_dict, "insight", "unknown")

\* line 194: insight_dict.get('insight', '')
InsightText(insight_dict) == DictGet(insight_dict, "insight", "")

\* lines 194-195: an insight whose text is empty or absent is passed over
SvSkipEmpty ==
    /\ SvAtInsight
    /\ InsightText(SvInsight) = ""
    /\ sv' = [sv EXCEPT !.ii = sv.ii + 1]
    /\ UNCHANGED <<seedFile, prefHash, db, hs, toolState, eventState>>
    /\ UNCHANGED <<env, pc, trace, redis_client, vectorizer, search_index, factory, agent>>

\* lines 196-203: store_preference succeeds
SvStoreOk ==
    /\ SvAtInsight
    /\ InsightText(SvInsight) # ""
    /\ \E id \in FreshUserPrefIds(db, SvUser) :
        /\ db' = StorePreference(db, SvUser, InsightText(SvInsight), "seed", id)
        /\ sv' = [sv EXCEPT !.ii = sv.ii + 1,
                            !.written = sv.written \cup {UserPrefKey(SvUser, id)},
                            !.stored = Append(sv.stored,
                                              <<SvUser, InsightText(SvInsight)>>)]
    /\ UNCHANGED <<seedFile, prefHash, hs, toolState, eventState>>
    /\ UNCHANGED <<env, pc, trace, redis_client, vectorizer, search_index, factory, agent>>

\* lines 207-209: store_preference raises; the rest of this user is skipped
SvStoreFail ==
    /\ SvAtInsight
    /\ InsightText(SvInsight) # ""
    /\ sv' = [sv EXCEPT !.ui = sv.ui + 1, !.ii = 1,
                        !.failed = sv.failed \cup {SvUser}]
    /\ UNCHANGED <<seedFile, prefHash, db, hs, toolState, eventState>>
    /\ UNCHANGED <<env, pc, trace, redis_client, vectorizer, search_index, factory, agent>>

\* line 205: the inner loop is over, on to the next user
SvNextUser ==
    /\ sv.pc = "store"
    /\ sv.ui <= Len(SvMemories)
    /\ sv.ii > Len(SvMemories[sv.ui][2])
    /\ sv' = [sv EXCEPT !.ui = sv.ui + 1, !.ii = 1]
    /\ UNCHANGED <<seedFile, prefHash, db, hs, toolState, eventState>>
    /\ UNCHANGED <<env, pc, trace, redis_client, vectorizer, search_index, factory, agent>>

\* lines 211-212: the outer loop is over
SvDone ==
    /\ sv.pc = "store"
    /\ sv.ui > Len(SvMemories)
    /\ UNCHANGED <<seedFile, prefHash, db, hs, toolState, eventState>>
    /\ UNCHANGED <<env, redis_client, vectorizer, search_index, factory, agent>>
    /\ SvReturn(TRUE, "none")

(***************************************************************************)
(* main (main.py).  Each action is one stage of main; a stage that can     *)
(* raise has one disjunct per outcome.                                     *)
(***************************************************************************)
\* lines 55-77: load the environment, set up observability when its
\* connection string is given, check the four required variables
MainEnvCheck ==
    /\ pc = "start"
    /\ UNCHANGED <<seedFile, prefHash, db, hs, toolState, eventState>>
    /\ UNCHANGED <<env, redis_client, vectorizer, search_index, factory, agent, sv>>
    /\ \/ /\ Truthy(Getenv("APPLICATIONINSIGHTS_CONNECTION_STRING"))
          /\ \/ /\ trace' = trace \o <<"setup_observability", "env_check">>
                /\ pc' = IF AllRequired THEN "connect" ELSE "returned"
             \/ /\ trace' = Append(trace, "setup_observability")
                /\ pc' = "raised"
       \/ /\ ~Truthy(Getenv("APPLICATIONINSIGHTS_CONNECTION_STRING"))
          /\ trace' = Append(trace, "env_check")
          /\ pc' = IF AllRequired THEN "connect" ELSE "returned"

\* a main that carries on without Redis
MainIgnoreRedisFailure == "set_client"

\* what main does when redis.from_url or ping raises (lines 85-87)
MainOnRedisFailure == "returned"

\* lines 80-87: redis.from_url and ping
MainConnect ==
    /\ pc = "connect"
    /\ UNCHANGED <<seedFile, prefHash, db, hs, toolState, eventState>>
    /\ UNCHANGED <<env, redis_client, vectorizer, search_index, factory, agent, sv>>
    /\ \/ /\ trace' = Append(trace, "ping")
          /\ pc' = "set_client"
       \/ /\ trace' = Append(trace, "ping_failed")
          /\ pc' = MainOnRedisFailure

\* line 90: set_redis_client(redis_client)
MainSetClient ==
    /\ pc = "set_client"
    /\ redis_client' = TRUE
    /\ trace' = Append(trace, "set_redis_client")
    /\ pc' = "vector_init"
    /\ UNCHANGED <<seedFile, prefHash, db, hs, toolState, eventState>>
    /\ UNCHANGED <<env, vectorizer, search_index, factory, agent, sv>>

\* a main that starts the seeding coroutine without waiting for it
MainSpawnSeeding == "conv_store"

\* line 111: asyncio.run blocks main until the seeding coroutine has returned
MainRunSeeding == "seeding"

\* a main that gives up when the vector initialisation raises
MainVectorFailureFatal == "returned"

\* what main does when the vector initialisation raises (lines 114-116)
MainOnVectorFailure == "conv_store"

\* lines 97-111: create the vectorizer and the search index, set the tools'
\* globals, then start asyncio.run(seed_user_preferences_with_vectors(...))
MainVectorInit ==
    /\ pc = "vector_init"
    /\ UNCHANGED <<seedFile, prefHash, db, hs, toolState, eventState>>
    /\ UNCHANGED <<env, redis_client, factory, agent>>
    /\ \/ /\ vectorizer' = TRUE
          /\ search_index' = TRUE
          /\ trace' = trace \o <<"vector_init", "seed_start">>
          /\ sv' = SvEnter
          /\ pc' = MainRunSeeding
       \/ /\ trace' = Append(trace, "vector_init_failed")
          /\ pc' = MainOnVectorFailure
          /\ UNCHANGED <<vectorizer, search_index, sv>>

\* lines 124-131: create_chat_message_store_factory(redis_url)
MainConvStore ==
    /\ pc = "conv_store"
    /\ UNCHANGED <<seedFile, prefHash, db, hs, toolState, eventState>>
    /\ UNCHANGED <<env, redis_client, vectorizer, search_index, agent>>
    /\ sv' = [svIdle EXCEPT !.result = sv.result]  \* the coroutine's locals are gone
    /\ pc' = "azure_client"
    /\ \/ /\ factory' = "factory"
          /\ trace' = Append(trace, "conv_store")
       \/ /\ factory' = "None"
          /\ trace' = Append(trace, "conv_store_failed")

\* lines 137-143: the os.environ assignments before the client is created
MainSetEnviron ==
    [env EXCEPT
        !["AZURE_OPENAI_RESPONSES_DEPLOYMENT_NAME"] =
            Getenv("AZURE_OPENAI_DEPLOYMENT_NAME"),
        !["AZURE_OPENAI_API_VERSION"] =
            IF Getenv("AZURE_OPENAI_API_VERSION") = "None" THEN "preview"
            ELSE Getenv("AZURE_OPENAI_API_VERSION")]

\* lines 135-152: AzureOpenAIResponsesClient()
MainAzureClient ==
    /\ pc = "azure_client"
    /\ env' = MainSetEnviron
    /\ UNCHANGED <<seedFile, prefHash, db, hs, toolState, eventState>>
    /\ UNCHANGED <<redis_client, vectorizer, search_index, factory, agent, sv>>
    /\ \/ /\ trace' = Append(trace, "azure_client")
          /\ pc' = "create_agent"
       \/ /\ trace' = Append(trace, "azure_client_failed")
          /\ pc' = "returned"

\* lines 180-186: responses_client.create_agent(...), outside any try
MainCreateAgent ==
    /\ pc = "create_agent"
    /\ UNCHANGED <<seedFile, prefHash, db, hs, toolState, eventState>>
    /\ UNCHANGED <<env, redis_client, vectorizer, search_index, factory, sv>>
    /\ \/ /\ agent' = [created |-> TRUE, chat_message_store_factory |-> factory]
          /\ trace' = Append(trace, "create_agent")
          /\ pc' = "serve"
       \/ /\ trace' = Append(trace, "create_agent_raised")
          /\ pc' = "raised"
          /\ UNCHANGED agent

\* lines 202-207: serve(entities=[travel_agent], ...) starts and blocks; the
\* tools are called from inside it
MainServe ==
    /\ pc = "serve"
    /\ trace' = Append(trace, "serve")
    /\ pc' = "serving"
    /\ UNCHANGED <<seedFile, prefHash, db, hs, toolState, eventState>>
    /\ UNCHANGED <<env, redis_client, vectorizer, search_index, factory, agent, sv>>

(***************************************************************************)
(* The preference tools (tools/user_tools.py), called by the agent         *)
(* framework while serve() runs.  Each tool is a coroutine that never      *)
(* awaits before its last Redis command, so one call is one step.          *)
(***************************************************************************)
\* the mapping remember_preference writes (lines 71-81)
ContextHash(user_name, preference) ==
    [content |-> preference, role |-> "user", mime_type |-> "text/plain",
     user_id |-> user_name, application_id |-> "cool-vibes-travel-agent-vnext",
     agent_id |-> <<"agent_">> \o Lower(user_name),
     embedding |-> Embed(preference), timestamp |-> "ts", source |-> "learned"]

\* lines 66-81 of remember_preference: the key space after the hset under
\* the generated doc_id
RememberWrite(d, user_name, preference, doc_id) ==
    RedisHSetMapping(d, ContextKey(user_name, doc_id),
                     ContextHash(user_name, preference))

\* what a tool call leaves in `call`: the call, what it returned (result is
\* the kind of message, out the listed items), whether a command raised,
\* the commands it issued (cmds) and, for a search, the keys of the records
\* it listed (picked)
Returned(op, user_name, arg, result, redis_error) ==
    [op |-> op, user |-> user_name, arg |-> arg, result |-> result,
     redis_error |-> redis_error, out |-> <<>>, picked |-> <<>>, cmds |-> <<>>,
     decode_responses |-> FALSE]

\* a tool that lets the exception of a failed command escape
ToolRaises(message) == "raised"

\* lines 86-88, 161-163, 223-225: the except clause of a tool returns its
\* error message
ToolOnError(message) == message

\* reseed_user_preferences when another call can run between its commands:
\* pc is "listed" between keys (line 183) and delete (line 185); listed are
\* the keys line 183 returned; beside are the keys remember_preference wrote
\* while pc was "listed"
rsIdle == [pc |-> "idle", listed |-> {}, beside |-> {}]

\* a key written by another call, noted when a reseed is between its
\* listing and its delete
WrittenBeside(r, key) ==
    IF r.pc = "listed" THEN [r EXCEPT !.beside = r.beside \cup {key}] ELSE r

\* tools/user_tools.py has been imported: by main, which serves the tools
\* after set_redis_client (and set_vectorizer when the vector initialisation
\* succeeded), or by another program that has called neither setter, so
\* that _redis_client is still None (lines 8-11)
ToolsLoaded == pc \in {"serving", "imported"}

\* a test that looks at the Redis client only
NoClient(client, vec) == ~client

\* lines 54 and 107: if not _redis_client or not _vectorizer
NotAvailable(client, vec) == ~client \/ ~vec

\* remember_preference(user_name, preference)
RememberPreference(user_name, preference) ==
    /\ ToolsLoaded
    /\ UNCHANGED <<seedFile, prefHash, hs, mainState, eventState>>
    /\ IF NotAvailable(redis_client, vectorizer)
       THEN \* lines 54-55
            /\ db' = db
            /\ learned' = learned
            /\ rs' = rs
            /\ call' = Returned("remember_preference", user_name, preference,
                                "unavailable", FALSE)
       ELSE \/ \* embed or hset raised: lines 86-88
               /\ db' = db
               /\ learned' = learned
               /\ rs' = rs
               /\ \E cmds \in {<<"embed">>, <<"embed", "hset">>} :
                    call' = [Returned("remember_preference", user_name, preference,
                                      ToolOnError("error"), TRUE)
                             EXCEPT !.cmds = cmds]
            \/ \* lines 63-84, doc_id = str(uuid.uuid4())[:8]
               \E doc_id \in Ids :
                /\ db' = RememberWrite(db, user_name, preference, doc_id)
                /\ learned' = learned \cup {<<user_name, preference>>}
                /\ rs' = WrittenBeside(rs, ContextKey(user_name, doc_id))
                /\ call' = [Returned("remember_preference", user_name, preference,
                                     "stored", FALSE)
                            EXCEPT !.cmds = <<"embed", "hset">>]

\* line 197 of reseed_user_preferences:
\*   from seeding import seed_redis_providers_directly
\* seeding.py defines seed_user_preferences, get_user_preferences and
\* seed_user_preferences_with_vectors only, so the import raises ImportError
\* and lines 198-221 never run.
SeedingExports ==
    {"seed_user_preferences", "get_user_preferences",
     "seed_user_preferences_with_vectors"}
ReseedImportRaises == "seed_redis_providers_directly" \notin SeedingExports

\* lines 182-186 of reseed_user_preferences: delete every Context key
ReseedDelete(d) == RedisDelete(d, RedisKeys(d, ContextPattern))

\* reseed_user_preferences()
ReseedUserPreferences ==
    /\ ToolsLoaded
    /\ UNCHANGED <<seedFile, prefHash, hs, mainState, eventState, rs>>
    /\ IF ~redis_client
       THEN \* lines 176-177
            /\ db' = db
            /\ learned' = learned
            /\ call' = Returned("reseed_user_preferences", <<>>, "",
                                "cannot_reseed", FALSE)
       ELSE \/ \* keys or delete raised: lines 223-225
               /\ db' = db
               /\ learned' = learned
               /\ \E cmds \in {<<"keys">>, <<"keys", "delete">>} :
                    call' = [Returned("reseed_user_preferences", <<>>, "",
                                      ToolOnError("failed_to_reseed"), TRUE)
                             EXCEPT !.cmds = cmds]
            \/ \* the keys are deleted, FT.DROPINDEX is tried (its failure
               \* is swallowed), then the import decides
               /\ db' = ReseedDelete(db)
               /\ learned' = {}
               /\ call' = [Returned("reseed_user_preferences", <<>>, "",
                                     IF ReseedImportRaises
                                     THEN ToolOnError("failed_to_reseed")
                                     ELSE "reseeded",
                                     FALSE)
                           EXCEPT !.cmds = IF RedisKeys(db, ContextPattern) = {}
                                           THEN <<"keys", "ft.dropindex">>
                                           ELSE <<"keys", "delete", "ft.dropindex">>]

\* a reseed that lists the keys again when it deletes
ReseedDeletedByPattern(d, keys) == RedisDelete(d, RedisKeys(d, ContextPattern))

\* lines 184-185: if keys: _redis_client.delete(*keys)
ReseedDeleted(d, keys) == RedisDelete(d, keys)

\* line 183 alone: keys = _redis_client.keys(pattern)
ReseedList ==
    /\ ToolsLoaded
    /\ redis_client
    /\ rs.pc \in {"idle", "done"}
    /\ UNCHANGED <<seedFile, prefHash, db, hs, mainState, eventState, learned>>
    /\ \/ \* keys raised: lines 223-225
          /\ rs' = rs
          /\ call' = [Returned("reseed_user_preferences", <<>>, "",
                                ToolOnError("failed_to_reseed"), TRUE)
                      EXCEPT !.cmds = <<"keys">>]
       \/ /\ rs' = [pc |-> "listed", listed |-> RedisKeys(db, ContextPattern),
                     beside |-> {}]
          /\ call' = call

\* lines 184-225 after the listing: the delete, FT.DROPINDEX, the import
ReseedFinish ==
    /\ rs.pc = "listed"
    /\ UNCHANGED <<seedFile, prefHash, hs, mainState, eventState>>
    /\ rs' = [rs EXCEPT !.pc = "done"]
    /\ \/ \* delete raised: lines 223-225
          /\ rs.listed # {}
          /\ db' = db
          /\ learned' = learned
          /\ call' = [Returned("reseed_user_preferences", <<>>, "",
                                ToolOnError("failed_to_reseed"), TRUE)
                      EXCEPT !.cmds = <<"keys", "delete">>]
       \/ /\ db' = ReseedDeleted(db, rs.listed)
          /\ learned' = {pr \in learned :
                            \E k \in RedisKeys(db', UserContextPattern(pr[1])) :
                                HashGet(db'[k], "content", "") = pr[2]}
          /\ call' = [Returned("reseed_user_preferences", <<>>, "",
                                IF ReseedImportRaises
                                THEN ToolOnError("failed_to_reseed")
                                ELSE "reseeded",
                                FALSE)
                      EXCEPT !.cmds = IF rs.listed = {}
                                      THEN <<"keys", "ft.dropindex">>
                                      ELSE <<"keys", "delete", "ft.dropindex">>]

(***************************************************************************)
(* The reading functions: get_user_preferences (seeding.py) and            *)
(* get_semantic_preferences (tools/user_tools.py).                         *)
(***************************************************************************)
RECURSIVE SetToSeq(_)
\* the elements of S in one fixed order
SetToSeq(S) ==
    IF S = {} THEN <<>>
    ELSE LET x == CHOOSE y \in S : TRUE IN <<x>> \o SetToSeq(S \ {x})

Rotate(s, n) == SubSeq(s, n + 1, Len(s)) \o SubSeq(s, 1, n)
Reverse(s) == [i \in DOMAIN s |-> s[Len(s) + 1 - i]]

\* the orders redis_client.keys(pattern) may list the keys ks in: KEYS
\* promises no order.  The model takes one order, the same rotated by one
\* key, and the reverse of each: every order of up to two keys, four
\* orders of more.
KeyOrders(ks) ==
    IF ks = {} THEN {<<>>}
    ELSE LET c == SetToSeq(ks)
         IN  {c, Reverse(c), Rotate(c, 1), Reverse(Rotate(c, 1))}

\* lines 103-107 of get_user_preferences: the entry made of a hash
UserPrefEntry(h) ==
    [insight |-> h.preference_text,
     source |-> HashGet(h, "source", "unknown"),
     timestamp |-> HashGet(h, "timestamp", "")]

RECURSIVE UserPrefEntries(_, _)
\* lines 93-107: the loop over the listed keys
UserPrefEntries(d, keys) ==
    IF keys = <<>> THEN <<>>
    ELSE (IF "preference_text" \in DOMAIN d[Head(keys)]
          THEN <<UserPrefEntry(d[Head(keys)])>> ELSE <<>>)
         \o UserPrefEntries(d, Tail(keys))

\* get_user_preferences(redis_client, user_name), called with a connected
\* client created with decode_responses False (as main creates it) or True
GetUserPreferences(user_name) ==
    /\ ToolsLoaded
    /\ UNCHANGED <<seedFile, prefHash, db, hs, mainState, eventState, learned, rs>>
    /\ \/ \* keys or hgetall raised: lines 111-116
          \E cmds \in {<<"keys">>, <<"keys", "hgetall">>}, dec \in BOOLEAN :
            call' = [Returned("get_user_preferences", user_name, "",
                              ToolOnError("list"), TRUE)
                     EXCEPT !.cmds = cmds, !.decode_responses = dec]
       \/ \* lines 85-109
          \E keys \in KeyOrders(RedisKeys(db, UserUserPrefPattern(user_name))),
             dec \in BOOLEAN :
            IF dec /\ keys # <<>>
            THEN \* line 98: the field names of a decoding client are str,
                 \* k.decode raises AttributeError on the first hash and
                 \* lines 114-116 return []
                 call' = [Returned("get_user_preferences", user_name, "",
                                   ToolOnError("list"), FALSE)
                          EXCEPT !.cmds = <<"keys", "hgetall">>,
                                 !.decode_responses = dec]
            ELSE call' = [Returned("get_user_preferences", user_name, "",
                                   "list", FALSE)
                          EXCEPT !.out = UserPrefEntries(db, keys),
                                 !.picked = SelectSeq(keys,
                                     LAMBDA k : "preference_text" \in DOMAIN db[k]),
                                 !.cmds = IF keys = <<>> THEN <<"keys">>
                                          ELSE <<"keys", "hgetall">>,
                                 !.decode_responses = dec]

\* line 145: results[:5]
TopK == 5

\* np.dot of two vectors of one length
RECURSIVE Dot(_, _)
Dot(a, b) ==
    IF a = <<>> THEN 0 ELSE Head(a) * Head(b) + Dot(Tail(a), Tail(b))

\* the cosine similarity of query embedding q with a is less than with b
\* (lines 133-135); the division by the norms is compared in squares
SimLess(q, a, b) ==
    LET da == Dot(q, a)
        dz == Dot(q, b)
        na == Dot(a, a)
        nb == Dot(b, b)
    IN  IF da < 0 /\ dz >= 0 THEN TRUE
        ELSE IF da >= 0 /\ dz < 0 THEN FALSE
        ELSE IF da >= 0 THEN da * da * nb < dz * dz * na
        ELSE da * da * nb > dz * dz * na

\* lines 133-135: the cosine similarity d / sqrt(n), kept as <<d, n>>
Similarity(q, e) == <<Dot(q, e), Dot(q, q) * Dot(e, e)>>

\* line 128: the record carries an embedding and a content
Qualifies(h) == "embedding" \in DOMAIN h /\ "content" \in DOMAIN h

RECURSIVE InsertBySimilarity(_, _, _, _)
\* k put behind every key of `sorted` that is at least as similar
InsertBySimilarity(d, q, sorted, k) ==
    IF sorted = <<>> THEN <<k>>
    ELSE IF SimLess(q, d[Head(sorted)].embedding, d[k].embedding)
         THEN <<k>> \o sorted
         ELSE <<Head(sorted)>> \o InsertBySimilarity(d, q, Tail(sorted), k)

RECURSIVE SortBySimilarity(_, _, _)
\* line 144: results.sort(key=similarity, reverse=True), a stable sort
SortBySimilarity(d, q, keys) ==
    IF keys = <<>> THEN <<>>
    ELSE InsertBySimilarity(d, q,
            SortBySimilarity(d, q, SubSeq(keys, 1, Len(keys) - 1)),
            keys[Len(keys)])

\* a search that lists every record it scored
AllResults(results) == results

\* line 145: top_results = results[:5]
TopResults(results) ==
    SubSeq(results, 1, IF Len(results) < TopK THEN Len(results) ELSE TopK)

\* line 156: one line of the answer
PreferenceLine(q, h) ==
    [content |-> h.content, source |-> HashGet(h, "source", "unknown"),
     similarity |-> Similarity(q, h.embedding)]

\* the search terms of the model
Queries == {"likes jazz", "hotels"}

\* get_semantic_preferences(user_name, query)
GetSemanticPreferences(user_name, query) ==
    /\ ToolsLoaded
    /\ UNCHANGED <<seedFile, prefHash, db, hs, mainState, eventState, learned, rs>>
    /\ IF NotAvailable(redis_client, vectorizer)
       THEN \* lines 107-108
            call' = Returned("get_semantic_preferences", user_name, query,
                             "unavailable", FALSE)
       ELSE \/ \* embed, keys or hgetall raised: lines 161-163
               \E cmds \in {<<"embed">>, <<"embed", "keys">>,
                            <<"embed", "keys", "hgetall">>} :
                 call' = [Returned("get_semantic_preferences", user_name, query,
                                   ToolOnError("error"), TRUE)
                          EXCEPT !.cmds = cmds]
            \/ \* lines 114-159
               \E keys \in KeyOrders(RedisKeys(db, UserContextPattern(user_name))) :
                 LET q == Embed(query)
                     scored == SelectSeq(keys, LAMBDA k : Qualifies(db[k]))
                     top == TopResults(SortBySimilarity(db, q, scored))
                 IN  IF keys = <<>>
                     THEN \* lines 121-122
                          call' = [Returned("get_semantic_preferences", user_name,
                                            query, "none_found", FALSE)
                                   EXCEPT !.cmds = <<"embed", "keys">>]
                     ELSE IF \E i \in DOMAIN scored :
                                Len(db[scored[i]].embedding) # Len(q)
                     THEN \* np.dot raises ValueError on vectors of different
                          \* lengths: lines 161-163
                          call' = [Returned("get_semantic_preferences", user_name,
                                            query, ToolOnError("error"), FALSE)
                                   EXCEPT !.cmds = <<"embed", "keys", "hgetall">>]
                     ELSE IF top = <<>>
                     THEN \* lines 147-148
                          call' = [Returned("get_semantic_preferences", user_name,
                                            query, "none_matching", FALSE)
                                   EXCEPT !.cmds = <<"embed", "keys", "hgetall">>]
                     ELSE call' = [Returned("get_semantic_preferences", user_name,
                                            query, "found", FALSE)
                                   EXCEPT !.out = [i \in DOMAIN top |->
                                                    PreferenceLine(q, db[top[i]])],
                                          !.picked = top,
                                          !.cmds = <<"embed", "keys", "hgetall">>]

noCall == Returned("none", <<>>, "", "none", FALSE)

(***************************************************************************)
(* The mock events table (data/mock_events.py) and its lookup.  The        *)
(* lookup itself (tools/sports_tools.py) is not among the sources: it is   *)
(* modelled from the specification, "direct dictionary access by           *)
(* lowercase city string; unknown cities return empty results".            *)
(***************************************************************************)
City_new_york == <<"n", "e", "w", " ", "y", "o", "r", "k">>
City_los_angeles == <<"l", "o", "s", " ", "a", "n", "g", "e", "l", "e", "s">>
City_chicago == <<"c", "h", "i", "c", "a", "g", "o">>
\* a table keyed by the city as it is displayed
City_Boston == <<"B", "o", "s", "t", "o", "n">>
City_boston == <<"b", "o", "s", "t", "o", "n">>

\* EVENTS_DATA["new york"]
Events_new_york ==
    <<
      [id |-> "knicks_lakers_nov15", sport |-> "NBA", teams |-> "Knicks vs Lakers",
       venue |-> "Madison Square Garden", date |-> "2025-11-15", time |-> "19:30",
       city |-> "New York"],
      [id |-> "rangers_bruins_nov16", sport |-> "NHL", teams |-> "Rangers vs Bruins",
       venue |-> "Madison Square Garden", date |-> "2025-11-16", time |-> "19:00",
       city |-> "New York"],
      [id |-> "nets_celtics_nov20", sport |-> "NBA", teams |-> "Nets vs Celtics",
       venue |-> "Barclays Center", date |-> "2025-11-20", time |-> "19:30",
       city |-> "New York"]
    >>

\* EVENTS_DATA["los angeles"]
Events_los_angeles ==
    <<
      [id |-> "lakers_warriors_nov20", sport |-> "NBA", teams |-> "Lakers vs Warriors",
       venue |-> "Crypto.com Arena", date |-> "2025-11-20", time |-> "19:30",
       city |-> "Los Angeles"],
      [id |-> "clippers_suns_nov22", sport |-> "NBA", teams |-> "Clippers vs Suns",
       venue |-> "Crypto.com Arena", date |-> "2025-11-22", time |-> "20:00",
       city |-> "Los Angeles"],
      [id |-> "kings_avalanche_nov18", sport |-> "NHL", teams |-> "Kings vs Avalanche",
       venue |-> "Crypto.com Arena", date |-> "2025-11-18", time |-> "19:00",
       city |-> "Los Angeles"]
    >>

\* EVENTS_DATA["chicago"]
Events_chicago ==
    <<
      [id |-> "bulls_heat_nov17", sport |-> "NBA", teams |-> "Bulls vs Heat",
       venue |-> "United Center", date |-> "2025-11-17", time |-> "19:00",
       city |-> "Chicago"],
      [id |-> "blackhawks_redwings_nov19", sport |-> "NHL", teams |-> "Blackhawks vs Red Wings",
       venue |-> "United Center", date |-> "2025-11-19", time |-> "19:30",
       city |-> "Chicago"],
      [id |-> "bears_packers_nov24", sport |-> "NFL", teams |-> "Bears vs Packers",
       venue |-> "Soldier Field", date |-> "2025-11-24", time |-> "13:00",
       city |-> "Chicago"]
    >>

\* EVENTS_DATA["boston"]
Events_boston ==
    <<
      [id |-> "celtics_sixers_nov21", sport |-> "NBA", teams |-> "Celtics vs 76ers",
       venue |-> "TD Garden", date |-> "2025-11-21", time |-> "19:30",
       city |-> "Boston"],
      [id |-> "bruins_maple_leafs_nov23", sport |-> "NHL", teams |-> "Bruins vs Maple Leafs",
       venue |-> "TD Garden", date |-> "2025-11-23", time |-> "19:00",
       city |-> "Boston"]
    >>

\* the table, keyed by lower-case city name
EVENTS_DATA ==
    (City_new_york :> Events_new_york) @@
    (City_los_angeles :> Events_los_angeles) @@
    (City_chicago :> Events_chicago) @@
    (City_boston :> Events_boston)

\* EVENTS_DATA.get(city.lower(), []) on table t
FindEvents(t, city) ==
    IF Lower(city) \in DOMAIN t THEN t[Lower(city)] ELSE <<>>

\* one character upper-cased
UpperChar(c) ==
    IF \E i \in DOMAIN LowerCase : LowerCase[i] = c
    THEN UpperCase[CHOOSE i \in DOMAIN LowerCase : LowerCase[i] = c]
    ELSE c

RECURSIVE CaseVariants(_)
\* every spelling of s in upper and lower case
CaseVariants(s) ==
    IF s = <<>> THEN {<<>>}
    ELSE {<<c>> \o rest : c \in {s[1], UpperChar(s[1])},
                          rest \in CaseVariants(Tail(s))}

\* city names near the table's keys that are not keys
NearMisses ==
    {<<"b", "o", "s", "t">>,
     <<"b", "o", "s", "t", "o", "n", " ">>,
     <<" ", "b", "o", "s", "t", "o", "n">>,
     <<"n", "e", "w", "y", "o", "r", "k">>,
     <<"y", "o", "r", "k">>,
     <<"l", "a">>,
     <<"m", "i", "a", "m", "i">>,
     <<>>}

\* the city arguments the model looks up
Cities ==
    UNION {CaseVariants(c) : c \in {City_boston, City_chicago, City_new_york}
                                   \cup NearMisses}

\* find_events(city)
LookupEvents ==
    /\ \E city \in Cities :
        lookup' = [done |-> TRUE, city |-> city,
                   result |-> FindEvents(events_data, city)]
    /\ UNCHANGED events_data
    /\ UNCHANGED <<seedFile, prefHash, db, hs, mainState, toolState>>

noLookup == [done |-> FALSE, city |-> <<>>, result |-> <<>>]

(***************************************************************************)
(* Initial values.                                                         *)
(***************************************************************************)
\* a user of an earlier seed file, absent from the current one
Tyler == <<"T", "y", "l", "e", "r">>

\* what the Preferences hash may hold before a run: any fields left by
\* earlier seed files
PriorHashes ==
    {[u \in S |-> JsonDumps(<<<<<<"insight", "old">>>>>>)] :
        S \in SUBSET {Mark, Tyler}}

hsIdle ==
    [pc |-> "idle", i |-> 0, result |-> "none", runs |-> 0, okRuns |-> 0,
     pre |-> NoKey, prev |-> NoKey, snap |-> NoKey, written |-> {},
     deleted |-> FALSE, decode_responses |-> FALSE, error |-> "none"]

\* the environments main may start in
Envs ==
    {[n \in EnvNames |->
        IF n \in RequiredEnv THEN req[n]
        ELSE IF n \in OptionalEnv THEN opt[n] ELSE "None"] :
        req \in [RequiredEnv -> {"None", "", "value"}],
        opt \in [OptionalEnv -> {"None", "value"}]}

\* the seed files the start-up sequence is run with
MainSeedFiles ==
    {[kind |-> "missing"], [kind |-> "invalid_json"], [kind |-> "no_user_memories"],
     [kind |-> "json",
      user_memories |-> <<<<Mark, <<jazz, window>>>>, <<Shruti, <<emptyInsight, jazz>>>>>>],
     [kind |-> "json",
      user_memories |-> <<<<Shruti, <<noInsight>>>>, <<Mark, <<window>>>>>>]}

\* keys left in Redis by earlier runs of the program
PriorKeys ==
    {UserPrefKey(Tyler, IdNames[1]), UserPrefKey(Mark, IdNames[1]), ConvKey("thread-1")}
PriorHashOf(k) ==
    IF k[1] = UserPrefPrefix THEN UserPrefHash("old", "seed")
    ELSE [messages |-> "opaque"]
PriorDbs ==
    {[k \in S |-> PriorHashOf(k)] :
        S \in {{}, {UserPrefKey(Tyler, IdNames[1])},
               {UserPrefKey(Mark, IdNames[1]), ConvKey("thread-1")}, PriorKeys}}

agentNone == [created |-> FALSE, chat_message_store_factory |-> "unset"]

(***************************************************************************)
(* Spec: main from its first line, then the tools served by serve().       *)
(***************************************************************************)
Init ==
    /\ seedFile \in MainSeedFiles
    /\ prefHash = NoKey
    /\ db \in PriorDbs
    /\ hs = hsIdle
    /\ env \in Envs
    /\ pc = "start"
    /\ trace = <<>>
    /\ redis_client = FALSE
    /\ vectorizer = FALSE
    /\ search_index = FALSE
    /\ factory = "unset"
    /\ agent = agentNone
    /\ sv = svIdle
    /\ call = noCall
    /\ learned = {}
    /\ rs = rsIdle
    /\ events_data = EVENTS_DATA
    /\ lookup = noLookup

Next ==
    \/ MainEnvCheck
    \/ MainConnect
    \/ MainSetClient
    \/ MainVectorInit
    \/ SvSetup
    \/ SvDeleteUserPref
    \/ SvDeleteConv
    \/ SvRedisError
    \/ SvRead
    \/ SvSkipEmpty
    \/ SvStoreOk
    \/ SvStoreFail
    \/ SvNextUser
    \/ SvDone
    \/ MainConvStore
    \/ MainAzureClient
    \/ MainCreateAgent
    \/ MainServe
    \/ \E p \in Prefs : RememberPreference(Mark, p)
    \/ ReseedUserPreferences

Spec == Init /\ [][Next]_vars

(***************************************************************************)
(* SpecServe: the tools, called in any order while serve() runs, from      *)
(* every state main can reach serve() in.                                  *)
(***************************************************************************)
\* the calls main has made when it reaches serve(), the vector
\* initialisation having succeeded or not
TraceWhenServing(vec) ==
    <<"env_check", "ping", "set_redis_client">> \o
    (IF vec THEN <<"vector_init", "seed_start", "seed_end">>
     ELSE <<"vector_init_failed">>) \o
    <<"conv_store", "azure_client", "create_agent", "serve">>

\* Context records learned in an earlier run of the program
LearnedDbs ==
    {<<>>, RememberWrite(<<>>, Shruti, "window seat", IdNames[1])}

InitServe ==
    /\ seedFile \in {[kind |-> "missing"],
                     [kind |-> "json",
                      user_memories |-> <<<<Mark, <<jazz>>>>, <<Shruti, <<window>>>>>>]}
    /\ prefHash = NoKey
    /\ db \in LearnedDbs
    /\ hs = hsIdle
    /\ env = [n \in EnvNames |->
                IF n = "APPLICATIONINSIGHTS_CONNECTION_STRING" THEN "None"
                ELSE IF n = "AZURE_OPENAI_API_VERSION" THEN "preview" ELSE "value"]
    /\ pc = "serving"
    /\ redis_client = TRUE
    /\ vectorizer \in BOOLEAN
    /\ search_index = vectorizer
    /\ trace = TraceWhenServing(vectorizer)
    /\ factory = "factory"
    /\ agent = [created |-> TRUE, chat_message_store_factory |-> "factory"]
    /\ sv = [svIdle EXCEPT !.result = IF vectorizer THEN "False" ELSE "none"]
    /\ call = noCall
    /\ learned = {}
    /\ rs = rsIdle
    /\ events_data = EVENTS_DATA
    /\ lookup = noLookup

NextServe ==
    \/ \E u \in Users, p \in Prefs : RememberPreference(u, p)
    \/ ReseedUserPreferences

SpecServe == InitServe /\ [][NextServe]_vars

(***************************************************************************)
(* SpecRead: the reading functions and remember_preference while serve()   *)
(* runs, over stores that hold records of every shape the readers          *)
(* distinguish and users whose names hold ':' or '*'.                      *)
(***************************************************************************)
\* a user name that continues another one after a colon
MarkColon == Mark \o <<":", "x">>
\* a user name that is a glob pattern
MStar == <<"M", "*">>
ReadUsers == {Mark, Shruti, MarkColon, MStar}

\* a Context record as remember_preference and RedisProvider write it
ContextRecord(user_name, content, embedding) ==
    [ContextHash(user_name, content) EXCEPT !.embedding = embedding]

\* the record without one of its fields
Without(h, fld) == [f \in DOMAIN h \ {fld} |-> h[f]]

\* the ids of the records the stores below start with
OldIds == <<"a1", "a2", "a3", "a4", "a5", "a6", "a7", "a8">>

\* eight Context records of Mark: six that carry content and embedding, one
\* without embedding, one without content
ManyContext ==
    [k \in {ContextKey(Mark, OldIds[i]) : i \in 1..8} |->
        CASE k = ContextKey(Mark, OldIds[1]) -> ContextRecord(Mark, "likes jazz", <<2, 1>>)
          [] k = ContextKey(Mark, OldIds[2]) -> ContextRecord(Mark, "window seat", <<1, 2>>)
          [] k = ContextKey(Mark, OldIds[3]) -> ContextRecord(Mark, "vegetarian", <<1, 1>>)
          [] k = ContextKey(Mark, OldIds[4]) -> ContextRecord(Mark, "boutique hotels", <<3, 1>>)
          [] k = ContextKey(Mark, OldIds[5]) -> ContextRecord(Mark, "early flights", <<0, 1>>)
          [] k = ContextKey(Mark, OldIds[6]) -> ContextRecord(Mark, "likes jazz", <<4, 2>>)
          [] k = ContextKey(Mark, OldIds[7]) ->
                Without(ContextRecord(Mark, "no vector", <<1, 1>>), "embedding")
          [] k = ContextKey(Mark, OldIds[8]) ->
                Without(ContextRecord(Mark, "no text", <<1, 0>>), "content")]

\* records of several users in both name spaces, some without the fields the
\* readers look for
MixedStore ==
    (UserPrefKey(Mark, OldIds[1]) :> UserPrefHash("likes jazz", "seed"))
    @@ (UserPrefKey(Mark, OldIds[2]) :>
            Without(UserPrefHash("hidden", "seed"), "preference_text"))
    @@ (UserPrefKey(Mark, OldIds[3]) :>
            Without(Without(UserPrefHash("window seat", "seed"), "source"),
                    "timestamp"))
    @@ (UserPrefKey(Shruti, OldIds[1]) :> UserPrefHash("vegetarian", "seed"))
    @@ (UserPrefKey(MarkColon, OldIds[1]) :> UserPrefHash("early flights", "seed"))
    @@ (ContextKey(Shruti, OldIds[1]) :> ContextRecord(Shruti, "vegetarian", <<1, 1>>))
    @@ (ContextKey(MarkColon, OldIds[1]) :>
            ContextRecord(MarkColon, "early flights", <<0, 1>>))
    @@ (ContextKey(Mark, OldIds[1]) :>
            Without(ContextRecord(Mark, "no vector", <<1, 1>>), "embedding"))

\* a Context record whose embedding came from another embedding model
OtherModelStore ==
    (ContextKey(Shruti, OldIds[1]) :> ContextRecord(Shruti, "vegetarian", <<1, 1, 1>>))
    @@ (ContextKey(Mark, OldIds[1]) :> ContextRecord(Mark, "likes jazz", <<2, 1>>))

ReadDbs == {<<>>, ManyContext, MixedStore, OtherModelStore}

InitRead ==
    /\ seedFile = [kind |-> "missing"]
    /\ prefHash = NoKey
    /\ db \in ReadDbs
    /\ hs = hsIdle
    /\ env = [n \in EnvNames |->
                IF n = "APPLICATIONINSIGHTS_CONNECTION_STRING" THEN "None"
                ELSE IF n = "AZURE_OPENAI_API_VERSION" THEN "preview" ELSE "value"]
    /\ \/ /\ pc = "serving"
          /\ redis_client = TRUE
          /\ vectorizer \in BOOLEAN
          /\ search_index = vectorizer
          /\ trace = TraceWhenServing(vectorizer)
          /\ factory = "factory"
          /\ agent = [created |-> TRUE, chat_message_store_factory |-> "factory"]
          /\ sv = [svIdle EXCEPT !.result = IF vectorizer THEN "False" ELSE "none"]
       \/ /\ pc = "imported"
          /\ redis_client = FALSE
          /\ vectorizer \in BOOLEAN
          /\ search_index = FALSE
          /\ trace = <<>>
          /\ factory = "unset"
          /\ agent = agentNone
          /\ sv = svIdle
    /\ call = noCall
    /\ learned = {}
    /\ rs = rsIdle
    /\ events_data = EVENTS_DATA
    /\ lookup = noLookup

NextRead ==
    \/ \E p \in Prefs : RememberPreference(Mark, p)
    \/ \E u \in ReadUsers : GetUserPreferences(u)
    \/ \E u \in ReadUsers, query \in Queries : GetSemanticPreferences(u, query)
    \/ ReseedUserPreferences

SpecRead == InitRead /\ [][NextRead]_vars

(***************************************************************************)
(* SpecRace: while serve() runs, a second process has just called          *)
(* seed_user_preferences on the same Redis, and reseed_user_preferences    *)
(* runs command by command beside remember_preference.                     *)
(***************************************************************************)
RaceSeedFile ==
    [kind |-> "json",
     user_memories |-> <<<<Mark, <<jazz>>>>, <<Shruti, <<emptyInsight, window>>>>>>]

\* what the earlier seeding with the same file and one remember_preference
\* left in Redis
RaceDb ==
    StorePreference(
        StorePreference(
            RememberWrite(<<>>, Mark, "likes jazz", IdNames[1]),
            Mark, "likes jazz", "seed", IdNames[1]),
        Shruti, "window seat", "seed", IdNames[1])
RaceHash ==
    [u \in {Mark, Shruti} |->
        JsonDumps(DictGet(RaceSeedFile.user_memories, u, <<>>))]

InitRace ==
    /\ seedFile = RaceSeedFile
    /\ prefHash = RaceHash
    /\ db = RaceDb
    /\ hs = [hsIdle EXCEPT !.pc = "read", !.pre = prefHash, !.result = "running"]
    /\ sv = [svIdle EXCEPT !.result = "True"]
    /\ env = [n \in EnvNames |->
                IF n = "APPLICATIONINSIGHTS_CONNECTION_STRING" THEN "None"
                ELSE IF n = "AZURE_OPENAI_API_VERSION" THEN "preview" ELSE "value"]
    /\ pc = "serving"
    /\ redis_client = TRUE
    /\ vectorizer = TRUE
    /\ search_index = TRUE
    /\ trace = TraceWhenServing(TRUE)
    /\ factory = "factory"
    /\ agent = [created |-> TRUE, chat_message_store_factory |-> "factory"]
    /\ call = noCall
    /\ learned = {<<Mark, "likes jazz">>}
    /\ rs = rsIdle
    /\ events_data = EVENTS_DATA
    /\ lookup = noLookup

NextRace ==
    \/ HsRead
    \/ HsDeleteStep
    \/ HsHsetStep
    \/ HsVerify
    \/ HsRedisError
    \/ RememberPreference(Mark, "window seat")
    \/ ReseedList
    \/ ReseedFinish

SpecRace == InitRace /\ [][NextRace]_vars

(***************************************************************************)
(* SpecFail: the server is serving the tools while a seeding script calls  *)
(* one of the two seeding functions; every command of either may raise.    *)
(***************************************************************************)
FailSeedFiles ==
    {[kind |-> "missing"], [kind |-> "invalid_json"], [kind |-> "no_user_memories"],
     RaceSeedFile}

InitFail ==
    /\ seedFile \in FailSeedFiles
    /\ prefHash = RaceHash
    /\ db = RaceDb
    /\ \/ /\ \E dec \in BOOLEAN :
                hs = [hsIdle EXCEPT !.pc = "read", !.pre = prefHash,
                                    !.result = "running", !.decode_responses = dec]
          /\ sv = svIdle
       \/ /\ hs = hsIdle
          /\ sv = [svIdle EXCEPT !.pc = "setup", !.result = "running"]
    /\ env = [n \in EnvNames |->
                IF n = "APPLICATIONINSIGHTS_CONNECTION_STRING" THEN "None"
                ELSE IF n = "AZURE_OPENAI_API_VERSION" THEN "preview" ELSE "value"]
    /\ pc = "serving"
    /\ redis_client = TRUE
    /\ vectorizer \in BOOLEAN
    /\ search_index = vectorizer
    /\ trace = TraceWhenServing(vectorizer)
    /\ factory = "factory"
    /\ agent = [created |-> TRUE, chat_message_store_factory |-> "factory"]
    /\ call = noCall
    /\ learned = {<<Mark, "likes jazz">>}
    /\ rs = rsIdle
    /\ events_data = EVENTS_DATA
    /\ lookup = noLookup

NextFail ==
    \/ HsRead
    \/ HsDeleteStep
    \/ HsHsetStep
    \/ HsVerify
    \/ HsRedisError
    \/ SvSetup
    \/ SvDeleteUserPref
    \/ SvDeleteConv
    \/ SvRedisError
    \/ SvRead
    \/ SvSkipEmpty
    \/ SvStoreOk
    \/ SvStoreFail
    \/ SvNextUser
    \/ SvDone
    \/ RememberPreference(Mark, "window seat")
    \/ GetUserPreferences(Mark)
    \/ GetSemanticPreferences(Mark, "hotels")
    \/ ReseedUserPreferences

SpecFail == InitFail /\ [][NextFail]_vars

(***************************************************************************)
(* SpecSeed: a script calls the two seeding functions, MaxRuns times in    *)
(* all, on a Redis with arbitrary earlier content.                         *)
(***************************************************************************)
InitSeed ==
    /\ seedFile \in SeedFiles
    /\ \/ prefHash \in PriorHashes /\ db = <<>>
       \/ prefHash = NoKey /\ db \in PriorDbs
    /\ hs = hsIdle
    /\ env = [n \in EnvNames |-> "None"]
    /\ pc = "no_main"
    /\ trace = <<>>
    /\ redis_client = FALSE
    /\ vectorizer = FALSE
    /\ search_index = FALSE
    /\ factory = "unset"
    /\ agent = agentNone
    /\ sv = svIdle
    /\ call = noCall
    /\ learned = {}
    /\ rs = rsIdle
    /\ events_data = EVENTS_DATA
    /\ lookup = noLookup

NextSeed ==
    \/ HsCall
    \/ HsRead
    \/ HsDeleteStep
    \/ HsHsetStep
    \/ HsVerify
    \/ HsRedisError
    \/ SvCall
    \/ SvSetup
    \/ SvDeleteUserPref
    \/ SvDeleteConv
    \/ SvRedisError
    \/ SvRead
    \/ SvSkipEmpty
    \/ SvStoreOk
    \/ SvStoreFail
    \/ SvNextUser
    \/ SvDone

SpecSeed == InitSeed /\ [][NextSeed]_vars

(***************************************************************************)
(* SpecEvents: event lookups on the table.                                 *)
(***************************************************************************)
InitEvents ==
    /\ seedFile = [kind |-> "missing"]
    /\ prefHash = NoKey
    /\ db = <<>>
    /\ hs = hsIdle
    /\ env = [n \in EnvNames |-> "None"]
    /\ pc = "no_main"
    /\ trace = <<>>
    /\ redis_client = FALSE
    /\ vectorizer = FALSE
    /\ search_index = FALSE
    /\ factory = "unset"
    /\ agent = agentNone
    /\ sv = svIdle
    /\ call = noCall
    /\ learned = {}
    /\ rs = rsIdle
    /\ events_data = EVENTS_DATA
    /\ lookup = noLookup

NextEvents == LookupEvents

SpecEvents == InitEvents /\ [][NextEvents]_vars

(***************************************************************************)
(* Properties of the seeding functions, checked under SpecSeed.            *)
(***************************************************************************)
\* the user names under user_memories in the seed file
SeedUsers == DictKeys(SeedUserMemories(seedFile))
\* the insight list of user u in the seed file
SeedInsights(u) == DictGet(SeedUserMemories(seedFile), u, <<>>)

HsReturnedTrue == hs.pc = "idle" /\ hs.result = "True"
SvReturnedTrue == sv.pc = "idle" /\ sv.result = "True"

\* C1: after seed_user_preferences returns True, the fields of the
\* Preferences hash are exactly the user names of the seed file and each
\* field holds the JSON encoding of that user's insight list, whatever the
\* hash held before the call.
C1_SeedExactlyUsers ==
    HsReturnedTrue =>
        /\ DOMAIN prefHash = SeedUsers
        /\ \A u \in SeedUsers : prefHash[u] = JsonDumps(SeedInsights(u))

\* a run returned True on a hash that held a user absent from the seed file
C1_Witness ==
    /\ HsReturnedTrue
    /\ DOMAIN hs.pre \ SeedUsers # {}
    /\ Cardinality(SeedUsers) = 2

\* C2: reseeding clears before it writes.  In both seeding functions every
\* write of a run comes after that run's delete, and after a run that
\* returned True no field of the Preferences hash and no UserPref key that
\* existed before the run is left unless this run wrote it.
C2_ClearBeforeWrite ==
    /\ hs.written # {} => hs.deleted
    /\ sv.written # {} => sv.deleted
    /\ HsReturnedTrue =>
           \A f \in DOMAIN prefHash \cap DOMAIN hs.pre : f \in hs.written
    /\ SvReturnedTrue =>
           \A k \in RedisKeys(db, UserPrefPattern) \cap sv.pre : k \in sv.written

\* a vector seeding run returned True on a Redis that held a UserPref key it
\* removed and one it wrote again under the same id
C2_Witness ==
    /\ SvReturnedTrue
    /\ sv.pre \ DOMAIN db # {}
    /\ sv.pre \cap sv.written # {}

\* how often the seed file lists text t for user u
SeedCount(u, t) ==
    Cardinality({i \in DOMAIN SeedInsights(u) : InsightText(SeedInsights(u)[i]) = t})

\* C3: seeding is idempotent.  A second successful run of
\* seed_user_preferences leaves the Preferences hash as the run before left
\* it; a second run of seed_user_preferences_with_vectors leaves every user
\* with the same number of UserPref records, holding the same texts, as the
\* run before (both having stored every insight they tried); and records
\* never accumulate: no text is held more often than the seed file lists it.
C3_Idempotent ==
    /\ (HsReturnedTrue /\ hs.okRuns >= 2) => prefHash = hs.prev
    /\ (SvReturnedTrue /\ sv.okRuns >= 2 /\ sv.complete /\ sv.prevComplete) =>
           UserPrefContent(db) = sv.prev
    /\ SvReturnedTrue =>
           \A pr \in DOMAIN UserPrefContent(db) :
               UserPrefContent(db)[pr] <= SeedCount(pr[1], pr[2])

\* two vector seeding runs in a row stored everything, the second on top of
\* what the first left
C3_Witness ==
    /\ SvReturnedTrue
    /\ sv.okRuns = 2 /\ sv.complete /\ sv.prevComplete
    /\ Cardinality(DOMAIN sv.snap) >= 2
    /\ sv.pre # {}

(***************************************************************************)
(* reseed_user_preferences, checked under SpecServe.                       *)
(***************************************************************************)
\* the Context records of user u
ContextKeysOf(d, u) == RedisKeys(d, UserContextPattern(u))

\* C4: after reseed_user_preferences returns from a call made with the Redis
\* client set, REDIS_URL set and seed.json present, no learned Context record
\* is left and every seed preference is stored again under its user
C4_ReseedRestoresSeed ==
    (/\ call.op = "reseed_user_preferences"
     /\ redis_client
     /\ Truthy(Getenv("REDIS_URL"))
     /\ seedFile.kind = "json"
     /\ ~call.redis_error)
    => /\ \A k \in RedisKeys(db, ContextPattern) : db[k].source # "learned"
       /\ \A u \in SeedUsers : \A i \in DOMAIN SeedInsights(u) :
            InsightText(SeedInsights(u)[i]) # ""
            => \E k \in ContextKeysOf(db, u) :
                 db[k].content = InsightText(SeedInsights(u)[i])

(***************************************************************************)
(* find_events, checked under SpecEvents.                                  *)
(***************************************************************************)
\* city and key are the same name up to the case of their letters
SameIgnoringCase(city, key) ==
    /\ Len(city) = Len(key)
    /\ \A i \in DOMAIN key : city[i] \in {key[i], UpperChar(key[i])}

\* C5: a lookup returns exactly the event list of the key that equals the
\* city up to case (the key that is the city's lowercase form), returns the
\* empty list when there is no such key, and never modifies the table
C5_EventLookup ==
    /\ events_data = EVENTS_DATA
    /\ lookup.done =>
        /\ \A key \in DOMAIN EVENTS_DATA :
            (SameIgnoringCase(lookup.city, key) \/ Lower(lookup.city) = key)
            => lookup.result = EVENTS_DATA[key]
        /\ (\A key \in DOMAIN EVENTS_DATA :
                ~SameIgnoringCase(lookup.city, key) /\ Lower(lookup.city) # key)
            => lookup.result = <<>>

\* a city spelt with capitals was found, with the events of its key
C5_Witness ==
    /\ lookup.done
    /\ lookup.city # Lower(lookup.city)
    /\ Lower(lookup.city) = City_boston
    /\ Len(lookup.result) = 2

(***************************************************************************)
(* main, checked under Spec.                                               *)
(***************************************************************************)
Last(s) == s[Len(s)]
Called == Range(trace)

\* C6: when redis.from_url or ping raises, main returns at once: the client
\* is never handed to the tools, nothing is initialised or seeded, no agent
\* is created and serve is never called
C6_RedisFailureAborts ==
    "ping_failed" \in Called =>
        /\ pc = "returned"
        /\ Last(trace) = "ping_failed"
        /\ ~redis_client
        /\ ~vectorizer
        /\ ~search_index
        /\ sv.pc = "idle" /\ sv.result = "none"
        /\ factory = "unset"
        /\ ~agent.created
        /\ call = noCall

C6_Witness == "ping_failed" \in Called /\ pc = "returned"

\* C7: main stops only at the environment check, at a failed Redis
\* connection, at a failed Azure client or at a raising call outside its
\* try blocks, never at a failed vector initialisation, a failed seeding or a
\* failed conversation store; after a failed conversation store the agent is
\* created with no chat message store factory; serve runs with an agent
C7_NonFatalFailures ==
    /\ pc \in {"returned", "raised"} =>
        Last(trace) \in {"setup_observability", "env_check", "ping_failed",
                         "azure_client_failed", "create_agent_raised"}
    /\ "conv_store_failed" \in Called =>
        /\ factory = "None"
        /\ agent.created => agent.chat_message_store_factory = "None"
    /\ pc \in {"serve", "serving"} => agent.created

\* serve runs after the seeding failed on a missing seed file and the
\* conversation store could not be created
C7_Witness ==
    /\ pc = "serving"
    /\ seedFile.kind = "missing"
    /\ sv.result = "False"
    /\ "conv_store_failed" \in Called
    /\ agent.created
    /\ agent.chat_message_store_factory = "None"

\* a required variable is unset or the empty string
RequiredMissing == \E n \in RequiredEnv : env[n] \in {"None", ""}

\* C8: with a required variable unset or empty main returns after the
\* environment check, before Redis is touched; with all four present the
\* environment check never ends main, whatever the optional variables are,
\* and an unset API version becomes 'preview'
C8_RequiredEnv ==
    /\ RequiredMissing =>
        /\ pc \in {"start", "returned", "raised"}
        /\ Called \subseteq {"setup_observability", "env_check"}
        /\ ~redis_client
        /\ ~vectorizer
        /\ sv.pc = "idle" /\ sv.result = "none"
        /\ ~agent.created
        /\ call = noCall
    /\ (pc = "returned" /\ Last(trace) = "env_check") => RequiredMissing
    /\ pc \in {"create_agent", "serve", "serving"} =>
        env["AZURE_OPENAI_API_VERSION"] # "None"

\* main returned at the environment check because one variable is empty
C8_Witness ==
    /\ pc = "returned"
    /\ Last(trace) = "env_check"
    /\ \E n \in RequiredEnv :
        /\ env[n] = ""
        /\ \A m \in RequiredEnv \ {n} : env[m] = "value"

\* the place of each call in main
StageOf(t) ==
    CASE t = "setup_observability" -> 0
      [] t = "env_check" -> 1
      [] t \in {"ping", "ping_failed"} -> 2
      [] t = "set_redis_client" -> 3
      [] t \in {"vector_init", "vector_init_failed"} -> 4
      [] t = "seed_start" -> 5
      [] t = "seed_end" -> 6
      [] t \in {"conv_store", "conv_store_failed"} -> 7
      [] t \in {"azure_client", "azure_client_failed"} -> 8
      [] t \in {"create_agent", "create_agent_raised"} -> 9
      [] t = "serve" -> 10

\* C9: the calls of main happen in the order environment check, Redis ping,
\* set_redis_client, vector initialisation and seeding, conversation store,
\* Azure client, agent, serve; serve is called only after every stage before
\* it, a started seeding has returned before main goes on, and a tool runs
\* only while serve does, when no seeding is running
C9_StartupOrder ==
    /\ \A i, j \in DOMAIN trace : i < j => StageOf(trace[i]) < StageOf(trace[j])
    /\ "serve" \in Called =>
        /\ {"env_check", "ping", "set_redis_client", "azure_client",
            "create_agent"} \subseteq Called
        /\ Called \cap {"vector_init", "vector_init_failed"} # {}
        /\ Called \cap {"conv_store", "conv_store_failed"} # {}
        /\ "vector_init" \in Called => {"seed_start", "seed_end"} \subseteq Called
    /\ sv.pc # "idle" => pc = "seeding" /\ Last(trace) = "seed_start"
    /\ call # noCall => "serve" \in Called /\ sv.pc = "idle"

\* a tool stored a preference after a start-up that seeded
C9_Witness ==
    /\ pc = "serving"
    /\ sv.result = "True"
    /\ "seed_end" \in Called
    /\ call.op = "remember_preference"
    /\ call.result = "stored"

(***************************************************************************)
(* remember_preference, checked under SpecServe.                           *)
(***************************************************************************)
\* C10: every remember_preference call that stores adds exactly one Context
\* record for its user and leaves every record that existed as it was
C10_RememberAddsOne ==
    [][\A u \in Users, p \in Prefs :
        (RememberPreference(u, p) /\ call'.result = "stored")
        => /\ Cardinality(ContextKeysOf(db', u)) =
              Cardinality(ContextKeysOf(db, u)) + 1
           /\ \A k \in DOMAIN db : k \in DOMAIN db' /\ db'[k] = db[k]]_vars

(***************************************************************************)
(* The name spaces of the preference records, checked under SpecRead.      *)
(***************************************************************************)
StoredCall == call.op = "remember_preference" /\ call.result = "stored"
ListedCall == call.op = "get_user_preferences" /\ ~call.redis_error
Insights(out) == {out[i].insight : i \in DOMAIN out}

UserPrefPart(d) == [k \in RedisKeys(d, UserPrefPattern) |-> d[k]]

SearchCall == call.op = "get_semantic_preferences"
\* the search returned a list of preferences or one of its two
\* "No preferences found" messages
SearchAnswered ==
    SearchCall /\ call.result \in {"found", "none_found", "none_matching"}
Contents(out) == {out[i].content : i \in DOMAIN out}

\* C12: with no reseed since remember_preference(u, p) reported success, a
\* get_semantic_preferences(u, q) that answers for a user with at most five
\* records lists p
C12_RememberedIsListed ==
    (/\ SearchAnswered
     /\ Cardinality(ContextKeysOf(db, call.user)) <= TopK)
    => \A pr \in learned : pr[1] = call.user => pr[2] \in Contents(call.out)

(***************************************************************************)
(* Seeding and reseeding beside the tools, checked under SpecRace.         *)
(***************************************************************************)
\* the reseed step that deletes, when the delete does not raise
ReseedDeletes == ReseedFinish /\ ~call'.redis_error

HsFailed == hs.pc = "idle" /\ hs.result \in {"True", "False"} /\ hs.error # "none"
SvFailed ==
    /\ sv.pc = "idle" /\ sv.result \in {"True", "False"}
    /\ (sv.error # "none" \/ sv.failed # {})

\* C14: whatever fails (Redis, the vectorizer, the seed file, an import), the
\* three tools return a string, get_user_preferences returns the empty list,
\* and both seeding functions return False.
C14_FailuresReturned ==
    /\ call.result # "raised"
    /\ (call.op = "get_user_preferences" /\ call.redis_error) => call.out = <<>>
    /\ HsFailed => hs.result = "False"
    /\ SvFailed => sv.result = "False"

(***************************************************************************)
(* C15: the search lists the five most similar qualifying records          *)
(***************************************************************************)
\* the records under the searched user's key pattern that carry both an
\* embedding and a content field
Scorable ==
    {k \in RedisKeys(db, UserContextPattern(call.user)) :
        {"embedding", "content"} \subseteq DOMAIN db[k]}
SearchFound == SearchCall /\ call.result = "found"

\* C15: a get_semantic_preferences that finds preferences lists at most five
\* lines, one per record, in non-increasing similarity to the query; the
\* records listed carry an embedding and a content, and no such record left
\* out is more similar than a listed one; with no such record the result is
\* one of the two "No preferences found" messages.
C15_TopFiveBySimilarity ==
    /\ SearchFound =>
        LET q == Embed(call.arg)
            e(i) == db[call.picked[i]].embedding
            n == Len(call.out)
        IN  /\ n <= 5
            /\ n = IF Cardinality(Scorable) < 5 THEN Cardinality(Scorable) ELSE 5
            /\ Len(call.picked) = n
            /\ \A i \in 1..n :
                /\ call.picked[i] \in Scorable
                /\ call.out[i].content = db[call.picked[i]].content
                /\ \A j \in 1..n :
                    /\ (i # j => call.picked[i] # call.picked[j])
                    /\ (i < j => ~SimLess(q, e(i), e(j)))
                /\ \A k \in Scorable :
                    SimLess(q, e(i), db[k].embedding) =>
                        \E j \in 1..n : call.picked[j] = k
    /\ (SearchAnswered /\ Scorable = {}) =>
            call.result \in {"none_found", "none_matching"}
    /\ (SearchCall /\ call.result \in {"none_found", "none_matching"}) =>
            Scorable = {}

\* a search that listed five of six qualifying records and passed over two
\* records that lack a field
C15_Witness ==
    /\ SearchFound
    /\ Len(call.out) = 5
    /\ Cardinality(Scorable) = 6
    /\ \E k \in RedisKeys(db, UserContextPattern(call.user)) :
            "embedding" \notin DOMAIN db[k]
    /\ \E k \in RedisKeys(db, UserContextPattern(call.user)) :
            "content" \notin DOMAIN db[k]
    /\ \E i \in 1..4 :
            SimLess(Embed(call.arg), db[call.picked[i + 1]].embedding,
                    db[call.picked[i]].embedding)

(***************************************************************************)
(* C16: a read returns the records of the user it was called for           *)
(***************************************************************************)
\* the user a record was stored for: the user_id a Context record carries,
\* the user name its key was built from otherwise
StoredFor(d, k) ==
    IF "user_id" \in DOMAIN d[k] THEN d[k].user_id ELSE UserOfKey(k)

\* C16: every record get_user_preferences(u) or get_semantic_preferences(u, q)
\* returns was stored for u, whatever characters the user names hold
C16_ReadsIsolated ==
    (call.op \in {"get_user_preferences", "get_semantic_preferences"}
        /\ call.result \in {"list", "found"}) =>
        \A i \in DOMAIN call.picked : StoredFor(db, call.picked[i]) = call.user

(***************************************************************************)
(* C17: the "not available" answers touch nothing; the search never writes *)
(***************************************************************************)
UnavailableAnswer == call.result \in {"unavailable", "cannot_reseed"}

\* C17: with the Redis client or the vectorizer unset, remember_preference
\* and get_semantic_preferences answer "service is not available", and
\* reseed_user_preferences with no Redis client answers "Cannot reseed";
\* these calls issue no Redis command and no embedding call and leave the
\* store as it was.  No call of get_semantic_preferences changes the store.
C17_UnavailableTouchesNothing ==
    /\ []((call.op \in {"remember_preference", "get_semantic_preferences"}
            /\ (~redis_client \/ ~vectorizer)) =>
                (call.result = "unavailable" /\ call.cmds = <<>>))
    /\ []((call.op = "reseed_user_preferences" /\ ~redis_client) =>
                (call.result = "cannot_reseed" /\ call.cmds = <<>>))
    /\ [][(call'.result \in {"unavailable", "cannot_reseed"}) =>
                (db' = db /\ prefHash' = prefHash)]_vars
    /\ [][(call'.op = "get_semantic_preferences") =>
                (db' = db /\ prefHash' = prefHash)]_vars

\* main fell back to serving without the vectorizer, a preference was asked
\* to be remembered over a store that holds records, and nothing was issued
C17_Witness ==
    /\ call.op = "remember_preference"
    /\ call.result = "unavailable"
    /\ redis_client /\ ~vectorizer
    /\ call.cmds = <<>>
    /\ DOMAIN db # {}

(***************************************************************************)
(* C18: a failed seeding or reseeding run leaves Redis as it was           *)
(***************************************************************************)
\* C18: a seed_user_preferences or seed_user_preferences_with_vectors run
\* that returned False because of the seed file has deleted no Preferences,
\* UserPref or Conversations key, and a reseed_user_preferences that returns
\* its failure message has left every Context key in place
C18_FailedRunLeavesRedis ==
    /\ []((hs.pc = "idle" /\ hs.result = "False" /\ hs.error = "seed_file") =>
            (~hs.deleted /\ prefHash = hs.pre))
    /\ []((sv.pc = "idle" /\ sv.result = "False" /\ sv.error = "seed_file") =>
            (~sv.deleted /\ sv.pre \subseteq DOMAIN db))
    /\ [][(call'.op = "reseed_user_preferences" /\ call' # call
            /\ call'.result = "failed_to_reseed") =>
                RedisKeys(db, ContextPattern) \subseteq DOMAIN db']_vars

(***************************************************************************)
(* C19: True means every user was written; a Redis error leaves a part     *)
(***************************************************************************)
HsRedisFailed == hs.pc = "idle" /\ hs.error = "redis"

\* C19: seed_user_preferences returns True only when every user of
\* user_memories is a field of the Preferences hash; a Redis error returns
\* False, and when it came after the delete the hash holds exactly the users
\* written before the error, each with its seed value, and nothing of what
\* it held before the call
C19_TrueOnlyIfAllWritten ==
    /\ (hs.pc = "idle" /\ hs.result = "True") =>
            /\ hs.written = SeedUsers
            /\ SeedUsers \subseteq DOMAIN prefHash
    /\ HsRedisFailed =>
            /\ hs.result = "False"
            /\ IF hs.deleted
               THEN /\ DOMAIN prefHash = hs.written
                    /\ hs.written \subseteq SeedUsers
                    /\ \A u \in hs.written :
                            prefHash[u] = JsonDumps(SeedInsights(u))
               ELSE prefHash = hs.pre

\* a run that failed between two hset calls over a hash that held another
\* user before: one seed user is in the hash, the earlier content is not
C19_Witness ==
    /\ HsRedisFailed
    /\ hs.deleted
    /\ hs.written # {}
    /\ hs.written # SeedUsers
    /\ DOMAIN prefHash = hs.written
    /\ \E u \in DOMAIN hs.pre : u \notin DOMAIN prefHash

(***************************************************************************)
(* C20: a store failure costs one user the rest of its insights, no more   *)
(***************************************************************************)
\* the texts of the seed insights of user u that are present and not empty
NonEmptyTexts(u) ==
    LET texts == [i \in DOMAIN SeedInsights(u) |->
                    DictGet(SeedInsights(u)[i], "insight", "")]
    IN  SelectSeq(texts, LAMBDA t : t # "")
\* the texts store_preference has stored for user u in this run, in order
StoredTexts(u) ==
    LET mine == SelectSeq(sv.stored, LAMBDA pr : pr[1] = u)
    IN  [i \in DOMAIN mine |-> mine[i][2]]
IsPrefix(s, t) == Len(s) <= Len(t) /\ s = SubSeq(t, 1, Len(s))
SvPastSeedFile == sv.pc = "idle" /\ sv.result \in {"True", "False"} /\ sv.ui >= 1

WithPreferenceText ==
    {k \in RedisKeys(db, UserUserPrefPattern(call.user)) :
        "preference_text" \in DOMAIN db[k]}

\* the entries of call.out are, one for one, the records of WithPreferenceText
\* with exactly insight, source and timestamp
OneEntryPerRecord ==
    /\ Len(call.out) = Cardinality(WithPreferenceText)
    /\ Len(call.picked) = Len(call.out)
    /\ {call.picked[i] : i \in DOMAIN call.picked} = WithPreferenceText
    /\ \A i \in DOMAIN call.out :
        LET h == db[call.picked[i]]
        IN  /\ DOMAIN call.out[i] = {"insight", "source", "timestamp"}
            /\ call.out[i].insight = h.preference_text
            /\ call.out[i].source =
                    (IF "source" \in DOMAIN h THEN h.source ELSE "unknown")
            /\ call.out[i].timestamp =
                    (IF "timestamp" \in DOMAIN h THEN h.timestamp ELSE "")

====
